---------------------------- MODULE Spec2Model ----------------------------
(***************************************************************************)
(* Model of the askama configuration resolver and template locator         *)
(* (askama_parser/src/config.rs) and of the template parser's entry point  *)
(* and scanner primitives (askama_derive/src/parser/mod.rs).               *)
(*                                                                         *)
(* Text is modelled as Rust models it: a string is a sequence of chars and *)
(* a char is the sequence of its UTF-8 bytes, so that str::len() (bytes)   *)
(* and chars().count() (characters) are different measures.  A path is the *)
(* sequence of its components, an absolute path starting with "/".         *)
(* Option<T> is a sequence of length 0 (None) or 1 (Some).                 *)
(***************************************************************************)
EXTENDS Integers, Sequences, FiniteSets, TLC

VARIABLES fs, config, call, loop_depth, remaining, frames, status, log

vars == <<fs, config, call, loop_depth, remaining, frames, status, log>>

\* The state of one parse call: the loop-nesting counter of its State, the
\* input still to be read, the loop bodies being parsed, how far the call
\* has got, and the loop bodies entered and left so far.
parser_vars == <<loop_depth, remaining, frames, status, log>>

\* No parse call is under way.
ParserIdle ==
    /\ loop_depth = 0
    /\ remaining = << >>
    /\ frames = << >>
    /\ status = "idle"
    /\ log = << >>

-----------------------------------------------------------------------------
(* Option and Result *)

None == << >>

Some(x) == <<x>>

is_some(o) == o # << >>

unwrap_or(o, d) == IF o = << >> THEN d ELSE o[1]

Ok(v) == [ok |-> TRUE, val |-> v]

\* A CompileError built by format!: the format string and its arguments, each
\* argument tagged with the kind of value that was formatted.
Err(msg, args) == [ok |-> FALSE, err |-> [msg |-> msg, args |-> args]]

Arg(t, v) == [t |-> t, v |-> v]

-----------------------------------------------------------------------------
(* Text: chars as UTF-8 byte sequences *)

Ch(b) == <<b>>

LBrace == Ch(123)

RBrace == Ch(125)

Percent == Ch(37)

Hash == Ch(35)

Lt == Ch(60)

Gt == Ch(62)

Bang == Ch(33)

LBracket == Ch(91)

EAcute == <<195, 169>>

ECirc == <<195, 170>>

EDiaer == <<195, 171>>

RECURSIVE as_bytes(_)
\* str::as_bytes: the UTF-8 bytes of the chars, in order.
as_bytes(s) == IF s = << >> THEN << >> ELSE Head(s) \o as_bytes(Tail(s))

\* str::len: the length in bytes.
StrLen(s) == Len(as_bytes(s))

\* Fault seeded for C14: chars are counted by their bytes.
CharCountInBytes(s) == Len(as_bytes(s))

\* chars().count(): the length in characters.
CharCount(s) == Len(s)

-----------------------------------------------------------------------------
(* Paths *)

is_absolute(p) == p # << >> /\ p[1] = "/"

\* PathBuf::join / push: an absolute argument replaces the receiver.
join(base, p) == IF is_absolute(p) THEN p ELSE base \o p

\* Path::file_name: none for an empty path, the root, or a path ending in "..".
file_name(p) == IF p = << >> \/ p[Len(p)] \in {"/", ".."} THEN None ELSE Some(p[Len(p)])

\* PathBuf::pop: truncate to the parent, if there is one.
pop(p) == IF p = << >> \/ p = <<"/">> THEN p ELSE SubSeq(p, 1, Len(p) - 1)

\* Path::with_file_name: set_file_name pops the file name when there is one,
\* then pushes the new name.
with_file_name(p, name) == join(IF is_some(file_name(p)) THEN pop(p) ELSE p, name)

\* env::var("CARGO_MANIFEST_DIR")
Root == <<"/", "proj">>

CONFIG_FILE_NAME == <<"askama.toml">>

DEFAULT_SYNTAX_NAME == "default"

DEFAULT_ESCAPERS ==
    << [extensions |-> <<"html", "htm", "xml">>, path |-> "::askama::Html"],
       [extensions |-> <<"md", "none", "txt", "yml", "">>, path |-> "::askama::Text"],
       [extensions |-> <<"j2", "jinja", "jinja2">>, path |-> "::askama::Html"] >>

-----------------------------------------------------------------------------
(* Syntax *)

SyntaxDefault ==
    [ block_start   |-> <<LBrace, Percent>>,
      block_end     |-> <<Percent, RBrace>>,
      expr_start    |-> <<LBrace, LBrace>>,
      expr_end      |-> <<RBrace, RBrace>>,
      comment_start |-> <<LBrace, Hash>>,
      comment_end   |-> <<Hash, RBrace>> ]

Fields == {"block_start", "block_end", "expr_start", "expr_end", "comment_start", "comment_end"}

\* Fault seeded for C10: a field not given falls back to another field's
\* default (comment_end to the default block_end).
MergeSyntaxWrongDefault(raw) ==
    [ block_start   |-> unwrap_or(raw.block_start, SyntaxDefault.block_start),
      block_end     |-> unwrap_or(raw.block_end, SyntaxDefault.block_end),
      expr_start    |-> unwrap_or(raw.expr_start, SyntaxDefault.expr_start),
      expr_end      |-> unwrap_or(raw.expr_end, SyntaxDefault.expr_end),
      comment_start |-> unwrap_or(raw.comment_start, SyntaxDefault.comment_start),
      comment_end   |-> unwrap_or(raw.comment_end, SyntaxDefault.block_end) ]

\* The Syntax a record asks for: each field given, or else the default.
MergeSyntax(raw) ==
    [ block_start   |-> unwrap_or(raw.block_start, SyntaxDefault.block_start),
      block_end     |-> unwrap_or(raw.block_end, SyntaxDefault.block_end),
      expr_start    |-> unwrap_or(raw.expr_start, SyntaxDefault.expr_start),
      expr_end      |-> unwrap_or(raw.expr_end, SyntaxDefault.expr_end),
      comment_start |-> unwrap_or(raw.comment_start, SyntaxDefault.comment_start),
      comment_end   |-> unwrap_or(raw.comment_end, SyntaxDefault.comment_end) ]

LengthError == Err("length of delimiters must be two", << >>)

BadDelimitersError(syntax) ==
    Err("bad delimiters block_start: {}, comment_start: {}, expr_start: {}, needs one of the two characters in common",
        << Arg("delim", syntax.block_start), Arg("delim", syntax.comment_start),
           Arg("delim", syntax.expr_start) >>)

\* The delimiter-length test of try_from.
LengthsOk(syntax) == \A f \in Fields : StrLen(syntax[f]) = 2

\* The shared-byte test of try_from.
StartsShareByte(syntax) ==
    LET bs == as_bytes(syntax.block_start)[1]
        be == as_bytes(syntax.block_start)[2]
        cs == as_bytes(syntax.comment_start)[1]
        ce == as_bytes(syntax.comment_start)[2]
        es == as_bytes(syntax.expr_start)[1]
        ee == as_bytes(syntax.expr_start)[2]
    IN  (bs = cs /\ bs = es) \/ (be = ce /\ be = ee)

\* Fault seeded for C4: the errors of try_from carry the record's name.
try_from_naming(raw) ==
    LET syntax == MergeSyntax(raw)
    IN  IF ~LengthsOk(syntax)
        THEN Err("length of delimiters must be two", << Arg("name", raw.name) >>)
        ELSE IF ~StartsShareByte(syntax)
        THEN Err("bad delimiters block_start: {}, comment_start: {}, expr_start: {}, needs one of the two characters in common",
                 << Arg("name", raw.name), Arg("delim", syntax.block_start),
                    Arg("delim", syntax.comment_start), Arg("delim", syntax.expr_start) >>)
        ELSE Ok(syntax)

\* impl TryFrom<RawSyntax> for Syntax
try_from(raw) ==
    LET syntax == MergeSyntax(raw)
    IN  IF ~LengthsOk(syntax) THEN LengthError
        ELSE IF ~StartsShareByte(syntax) THEN BadDelimitersError(syntax)
        ELSE Ok(syntax)

-----------------------------------------------------------------------------
(* Config::from_toml *)

RawConfigDefault == [general |-> None, syntax |-> None, escaper |-> None]

\* RawConfig::from_toml_str with the "config" feature: the toml crate either
\* yields the document's RawConfig or reports invalid TOML.
from_toml_str(s) ==
    IF s.kind = "doc" THEN Ok(s.doc)
    ELSE Err("invalid TOML in {}: {}", << Arg("path", CONFIG_FILE_NAME), Arg("toml", "error") >>)

AlreadyDefinedError(name) == Err("syntax \"{}\" is already defined", << Arg("name", name) >>)

DefaultNotFoundError(name) == Err("default syntax \"{}\" not found", << Arg("name", name) >>)

RECURSIVE InsertSyntaxesOverwriting(_, _)
\* Fault seeded for C2: the insert's return value is ignored, so a later
\* record silently replaces a syntax already defined.
InsertSyntaxesOverwriting(raw_syntaxes, syntaxes) ==
    IF raw_syntaxes = << >> THEN Ok(syntaxes)
    ELSE LET raw_s == Head(raw_syntaxes)
             converted == try_from(raw_s)
         IN  IF ~converted.ok THEN converted
             ELSE InsertSyntaxesOverwriting(Tail(raw_syntaxes),
                                            (raw_s.name :> converted.val) @@ syntaxes)

RECURSIVE InsertSyntaxes(_, _)
\* The loop over raw.syntax: convert, then insert; the first failure returns.
InsertSyntaxes(raw_syntaxes, syntaxes) ==
    IF raw_syntaxes = << >> THEN Ok(syntaxes)
    ELSE LET raw_s == Head(raw_syntaxes)
             name == raw_s.name
             converted == try_from(raw_s)
         IN  IF ~converted.ok THEN converted
             ELSE IF name \in DOMAIN syntaxes THEN AlreadyDefinedError(name)
             ELSE InsertSyntaxes(Tail(raw_syntaxes), (name :> converted.val) @@ syntaxes)

\* str_set, and the collect() of a record's extensions into a HashSet.
str_set(vals) == {vals[i] : i \in DOMAIN vals}

EscaperEntry(e) == [extensions |-> str_set(e.extensions), path |-> e.path]

\* Fault seeded for C5: the built-in rules are pushed before the configured.
BuildEscapersDefaultsFirst(configured) ==
    [i \in DOMAIN DEFAULT_ESCAPERS |-> EscaperEntry(DEFAULT_ESCAPERS[i])]
        \o [i \in DOMAIN configured |-> EscaperEntry(configured[i])]

\* The escaper list: the configured rules, then DEFAULT_ESCAPERS.
BuildEscapers(configured) ==
    [i \in DOMAIN configured |-> EscaperEntry(configured[i])]
        \o [i \in DOMAIN DEFAULT_ESCAPERS |-> EscaperEntry(DEFAULT_ESCAPERS[i])]

\* Fault seeded for C8: the listed directories are collected in reverse.
ResolveDirsReversed(general) ==
    IF is_some(general) /\ is_some(general[1].dirs)
    THEN [i \in DOMAIN general[1].dirs[1] |->
             join(Root, general[1].dirs[1][Len(general[1].dirs[1]) + 1 - i])]
    ELSE << join(Root, <<"templates">>) >>

\* The search directories of from_toml.
ResolveDirs(general) ==
    IF is_some(general) /\ is_some(general[1].dirs)
    THEN [i \in DOMAIN general[1].dirs[1] |-> join(Root, general[1].dirs[1][i])]
    ELSE << join(Root, <<"templates">>) >>

ResolveDefaultSyntax(general) ==
    IF is_some(general) THEN unwrap_or(general[1].default_syntax, DEFAULT_SYNTAX_NAME)
    ELSE DEFAULT_SYNTAX_NAME

ResolveWhitespace(general) == IF is_some(general) THEN general[1].whitespace ELSE "Preserve"

\* Fault seeded for C3: the default syntax is not looked up in the map.
from_toml_unchecked_default(s) ==
    LET parsed == IF s.kind = "empty" THEN Ok(RawConfigDefault) ELSE from_toml_str(s)
    IN  IF ~parsed.ok THEN parsed
        ELSE LET raw == parsed.val
                 inserted == InsertSyntaxes(unwrap_or(raw.syntax, << >>),
                                            DEFAULT_SYNTAX_NAME :> SyntaxDefault)
             IN  IF ~inserted.ok THEN inserted
                 ELSE Ok([ dirs           |-> ResolveDirs(raw.general),
                           syntaxes       |-> inserted.val,
                           default_syntax |-> ResolveDefaultSyntax(raw.general),
                           escapers       |-> BuildEscapers(unwrap_or(raw.escaper, << >>)),
                           whitespace     |-> ResolveWhitespace(raw.general) ])

from_toml(s) ==
    LET parsed == IF s.kind = "empty" THEN Ok(RawConfigDefault) ELSE from_toml_str(s)
    IN  IF ~parsed.ok THEN parsed
        ELSE LET raw == parsed.val
                 default_syntax == ResolveDefaultSyntax(raw.general)
                 inserted == InsertSyntaxes(unwrap_or(raw.syntax, << >>),
                                            DEFAULT_SYNTAX_NAME :> SyntaxDefault)
             IN  IF ~inserted.ok THEN inserted
                 ELSE IF default_syntax \notin DOMAIN inserted.val
                      THEN DefaultNotFoundError(default_syntax)
                 ELSE Ok([ dirs           |-> ResolveDirs(raw.general),
                           syntaxes       |-> inserted.val,
                           default_syntax |-> default_syntax,
                           escapers       |-> BuildEscapers(unwrap_or(raw.escaper, << >>)),
                           whitespace     |-> ResolveWhitespace(raw.general) ])

-----------------------------------------------------------------------------
(* The file system, read_config_file and Config::from_file *)

\* Path::exists
exists(files, p) ==
    \/ p \in files.templates
    \/ p \in DOMAIN files.conf /\ files.conf[p].kind # "absent"

EmptySource == [kind |-> "empty"]

\* Fault seeded for C9: an absent file reads as empty input whether or not
\* its name was given.
read_config_file_lenient(files, config_path) ==
    LET filename == IF is_some(config_path) THEN join(Root, config_path[1])
                    ELSE join(Root, CONFIG_FILE_NAME)
    IN  IF exists(files, filename)
        THEN IF files.conf[filename].kind = "file" THEN Ok(files.conf[filename].text)
             ELSE Err("unable to read {:?}", << Arg("path", filename) >>)
        ELSE Ok(EmptySource)

read_config_file(files, config_path) ==
    LET filename == IF is_some(config_path) THEN join(Root, config_path[1])
                    ELSE join(Root, CONFIG_FILE_NAME)
    IN  IF exists(files, filename)
        THEN IF files.conf[filename].kind = "file" THEN Ok(files.conf[filename].text)
             ELSE Err("unable to read {:?}", << Arg("path", filename) >>)
        ELSE IF is_some(config_path) THEN Err("{} does not exist", << Arg("path", Root) >>)
        ELSE Ok(EmptySource)

from_file(files, file) ==
    LET config_toml == read_config_file(files, file)
    IN  IF ~config_toml.ok THEN config_toml ELSE from_toml(config_toml.val)

-----------------------------------------------------------------------------
(* Config::find_template and Config::find_escaper *)

NotFoundError(path, dirs) ==
    Err("template {:?} not found in directories {:?}", << Arg("str", path), Arg("dirs", dirs) >>)

RECURSIVE SearchDirsBackwards(_, _, _, _)
\* Fault seeded for C7: the directories are tried from the last to the first.
SearchDirsBackwards(files, dirs, i, path) ==
    IF i > Len(dirs) THEN NotFoundError(path, dirs)
    ELSE IF exists(files, join(dirs[Len(dirs) + 1 - i], path))
    THEN Ok(join(dirs[Len(dirs) + 1 - i], path))
    ELSE SearchDirsBackwards(files, dirs, i + 1, path)

RECURSIVE SearchDirs(_, _, _, _)
\* The loop over self.dirs from index i on, then the failure.
SearchDirs(files, dirs, i, path) ==
    IF i > Len(dirs) THEN NotFoundError(path, dirs)
    ELSE IF exists(files, join(dirs[i], path)) THEN Ok(join(dirs[i], path))
    ELSE SearchDirs(files, dirs, i + 1, path)

\* Fault seeded for C6: the search directories are tried before the file
\* beside the context file.
find_template_dirs_first(files, cfg, path, start_at) ==
    IF SearchDirs(files, cfg.dirs, 1, path).ok THEN SearchDirs(files, cfg.dirs, 1, path)
    ELSE IF is_some(start_at) /\ exists(files, with_file_name(start_at[1], path))
    THEN Ok(with_file_name(start_at[1], path))
    ELSE NotFoundError(path, cfg.dirs)

find_template(files, cfg, path, start_at) ==
    IF is_some(start_at) /\ exists(files, with_file_name(start_at[1], path))
    THEN Ok(with_file_name(start_at[1], path))
    ELSE SearchDirs(files, cfg.dirs, 1, path)

RECURSIVE FindMap(_, _, _)
FindMap(escapers, i, name) ==
    IF i > Len(escapers) THEN None
    ELSE IF name \in escapers[i].extensions THEN Some(escapers[i].path)
    ELSE FindMap(escapers, i + 1, name)

find_escaper(cfg, name) == FindMap(cfg.escapers, 1, name)

-----------------------------------------------------------------------------
(* Bounds and the inputs drawn from them *)

MaxSyntaxes == 2

MaxEscapers == 2

MaxDirs == 2

\* All sequences over S of length at most n.
SeqsUpTo(S, n) == UNION {[1..k -> S] : k \in 0..n}

NoFields == [f \in Fields |-> None]

Named(name, fields) == ("name" :> name) @@ fields

\* Delimiter choices of syntax records: valid overrides, a full override,
\* one-char two-byte delimiters, wrong lengths, and start delimiters with no
\* byte in common.
OnlyBlockStart == [NoFields EXCEPT !.block_start = Some(<<LBrace, Lt>>)]

OnlyExprStart == [NoFields EXCEPT !.expr_start = Some(<<LBrace, Bang>>)]

AllSix ==
    [ block_start   |-> Some(<<Lt, Percent>>),
      block_end     |-> Some(<<Percent, Gt>>),
      expr_start    |-> Some(<<Lt, Lt>>),
      expr_end      |-> Some(<<Gt, Gt>>),
      comment_start |-> Some(<<Lt, Hash>>),
      comment_end   |-> Some(<<Hash, Gt>>) ]

SecondShared ==
    [NoFields EXCEPT !.block_start = Some(<<LBracket, Percent>>),
                     !.expr_start = Some(<<LBrace, Percent>>),
                     !.comment_start = Some(<<Hash, Percent>>)]

OneCharStarts ==
    [NoFields EXCEPT !.block_start = Some(<<EAcute>>),
                     !.expr_start = Some(<<ECirc>>),
                     !.comment_start = Some(<<EDiaer>>)]

ShortBlockStart == [NoFields EXCEPT !.block_start = Some(<<Lt>>)]

ShortCommentEnd == [NoFields EXCEPT !.comment_end = Some(<<Hash>>)]

LongBlockEnd == [NoFields EXCEPT !.block_end = Some(<<Percent, Percent, RBrace>>)]

NothingShared == [NoFields EXCEPT !.block_start = Some(<<Lt, Percent>>)]

FieldChoices ==
    { NoFields, OnlyBlockStart, OnlyExprStart, AllSix, SecondShared, OneCharStarts,
      ShortBlockStart, ShortCommentEnd, LongBlockEnd, NothingShared }

\* The records a configuration's syntax list is drawn from.
RawSyntaxes ==
    {Named("foo", f) : f \in FieldChoices}
        \cup {Named("bar", f) : f \in {NoFields, OnlyExprStart, ShortBlockStart, NothingShared}}
        \cup {Named("default", NoFields)}

\* Every subset of the six fields given (with a value that passes validation
\* beside the defaults), and the choices above: the inputs of try_from.
Alternative ==
    [ block_start   |-> <<LBrace, Lt>>,
      block_end     |-> <<Gt, RBrace>>,
      expr_start    |-> <<LBrace, Bang>>,
      expr_end      |-> <<Bang, RBrace>>,
      comment_start |-> <<LBrace, Gt>>,
      comment_end   |-> <<Gt, Gt>> ]

AllRawSyntaxes ==
    {Named(n, [f \in Fields |-> IF f \in given THEN Some(Alternative[f]) ELSE None]) :
        n \in {"foo", "bar"}, given \in SUBSET Fields}
        \cup {Named("foo", f) : f \in FieldChoices}

Whitespaces == {"Preserve", "Suppress", "Minimize"}

General(dirs, default_syntax, whitespace) ==
    [dirs |-> dirs, default_syntax |-> default_syntax, whitespace |-> whitespace]

Doc(general, syntax, escaper) ==
    [kind |-> "doc", doc |-> [general |-> general, syntax |-> syntax, escaper |-> escaper]]

RawEscapers ==
    { [path |-> "::askama::Js", extensions |-> <<"js">>],
      [path |-> "::askama::Text", extensions |-> <<"html">>],
      [path |-> "::askama::Js", extensions |-> <<"md", "js">>] }

DirNames == { <<"tpl">>, <<"templates">>, <<"/", "srv">> }

\* Configuration sources that vary the syntaxes and the default syntax.
SyntaxSources ==
    {Doc(g, sy, None) :
        g \in {None} \cup {Some(General(None, d, "Preserve")) :
                              d \in {None, Some("default"), Some("foo"), Some("baz")}},
        sy \in {None} \cup {Some(l) : l \in SeqsUpTo(RawSyntaxes, MaxSyntaxes)}}

\* Configuration sources that vary the escaper rules.
EscaperSources ==
    {Doc(None, None, e) : e \in {None} \cup {Some(l) : l \in SeqsUpTo(RawEscapers, MaxEscapers)}}

\* Configuration sources that vary the search directories and the whitespace.
DirSources ==
    {Doc(Some(General(d, None, "Preserve")), None, None) :
        d \in {None} \cup {Some(l) : l \in SeqsUpTo(DirNames, MaxDirs)}}
        \cup {Doc(Some(General(None, None, w)), None, None) : w \in Whitespaces}

InvalidSource == [kind |-> "invalid"]

TomlSources == SyntaxSources \cup EscaperSources \cup {EmptySource, InvalidSource}

Extensions == {"html", "md", "csv", "js", ""}

-----------------------------------------------------------------------------
(* The file systems and paths of the locator *)

TemplatesDir == join(Root, <<"templates">>)

ContextFiles == { join(TemplatesDir, <<"sub", "b.html">>), join(TemplatesDir, <<"a.html">>) }

TemplatePaths == { <<"c.html">>, <<"sub", "c.html">>, <<"/", "srv", "c.html">> }

\* The files a lookup can hit.
TemplateFiles ==
    { join(TemplatesDir, <<"c.html">>), join(TemplatesDir, <<"sub", "c.html">>),
      join(Root, <<"tpl", "c.html">>), <<"/", "srv", "c.html">> }

CustomConfig == <<"custom.toml">>

Absent == [kind |-> "absent"]

Directory == [kind |-> "dir"]

File(text) == [kind |-> "file", text |-> text]

TplSource == Doc(Some(General(Some(<< <<"tpl">> >>), None, "Suppress")), None, None)

ConfEntries == {Absent, Directory, File(EmptySource), File(TplSource), File(InvalidSource)}

FileSystem(templates, default_conf, custom_conf) ==
    [templates |-> templates,
     conf |-> (join(Root, CONFIG_FILE_NAME) :> default_conf)
                  @@ (join(Root, CustomConfig) :> custom_conf)]

NoFiles == FileSystem({}, Absent, Absent)

\* Every set of template files without configuration files, and every pair of
\* configuration files beside the full set of templates.
FileSystems ==
    {FileSystem(t, Absent, Absent) : t \in SUBSET TemplateFiles}
        \cup {FileSystem(TemplateFiles, d, c) :
                 d \in ConfEntries, c \in {Absent, Directory, File(TplSource)}}

-----------------------------------------------------------------------------
(* The operations as actions.  A build constructs its Config first and    *)
(* once, and a failed construction aborts the build; the queries follow on *)
(* the Config built.  call records the last call, its arguments and what   *)
(* it returned.                                                            *)

NoCall == [op |-> "none"]

Built(r) == IF r.ok THEN Some(r.val) ELSE None

FromTomlCall(s) ==
    /\ call = NoCall
    /\ config' = Built(from_toml(s))
    /\ call' = [op |-> "from_toml", arg |-> s, ret |-> from_toml(s)]
    /\ UNCHANGED fs
    /\ UNCHANGED parser_vars

FromFileCall(file) ==
    /\ call = NoCall
    /\ config' = Built(from_file(fs, file))
    /\ call' = [op |-> "from_file", arg |-> file, ret |-> from_file(fs, file)]
    /\ UNCHANGED fs
    /\ UNCHANGED parser_vars

TryFromCall(raw) ==
    /\ call = NoCall
    /\ call' = [op |-> "try_from", arg |-> raw, ret |-> try_from(raw)]
    /\ UNCHANGED <<fs, config>>
    /\ UNCHANGED parser_vars

FindTemplateCall(path, start_at) ==
    /\ config # None
    /\ call' = [op |-> "find_template", arg |-> [path |-> path, start_at |-> start_at],
                ret |-> find_template(fs, config[1], path, start_at)]
    /\ UNCHANGED <<fs, config>>
    /\ UNCHANGED parser_vars

FindEscaperCall(name) ==
    /\ config # None
    /\ call' = [op |-> "find_escaper", arg |-> name, ret |-> find_escaper(config[1], name)]
    /\ UNCHANGED <<fs, config>>
    /\ UNCHANGED parser_vars


\* Configuration resolution: from_toml, try_from and find_escaper.
Init ==
    /\ fs = NoFiles
    /\ config = None
    /\ call = NoCall
    /\ ParserIdle

Next ==
    \/ \E s \in TomlSources : FromTomlCall(s)
    \/ \E raw \in AllRawSyntaxes : TryFromCall(raw)
    \/ \E name \in Extensions : FindEscaperCall(name)

Spec == Init /\ [][Next]_vars

\* The file-system side: from_toml, from_file and find_template.
InitFiles ==
    /\ fs \in FileSystems
    /\ config = None
    /\ call = NoCall
    /\ ParserIdle

NextFiles ==
    \/ \E s \in DirSources \cup {EmptySource} : FromTomlCall(s)
    \/ \E file \in {None, Some(CustomConfig)} : FromFileCall(file)
    \/ \E path \in TemplatePaths, start_at \in {None} \cup {Some(c) : c \in ContextFiles} :
          FindTemplateCall(path, start_at)

SpecFiles == InitFiles /\ [][NextFiles]_vars

-----------------------------------------------------------------------------
(* Properties.  The expectations below are written out from the claims, not *)
(* taken from the operators they are checked against.                      *)

\* The syntax list of the configuration source of a from_toml call.
DeclaredSyntaxes ==
    IF call.op = "from_toml" /\ call.arg.kind = "doc" THEN unwrap_or(call.arg.doc.syntax, << >>)
    ELSE << >>

\* The general section of the configuration source of a from_toml call.
DeclaredGeneral ==
    IF call.op = "from_toml" /\ call.arg.kind = "doc" THEN call.arg.doc.general ELSE None

TwoChars(s) == CharCount(s) = 2

\* C1 (as claimed): every Syntax stored in a returned Config has six
\* delimiters of exactly two characters, and its three start delimiters all
\* share their first character or all share their second character.
C1_TwoCharsAndSharedChar ==
    config # None =>
        \A n \in DOMAIN config[1].syntaxes :
            LET sy == config[1].syntaxes[n]
            IN  /\ \A f \in Fields : TwoChars(sy[f])
                /\ \/ sy.block_start[1] = sy.expr_start[1] /\ sy.block_start[1] = sy.comment_start[1]
                   \/ sy.block_start[2] = sy.expr_start[2] /\ sy.block_start[2] = sy.comment_start[2]

HasDuplicateName(l) == \E i, j \in DOMAIN l : i # j /\ l[i].name = l[j].name

UsesReservedName(l) == \E i \in DOMAIN l : l[i].name = "default"

\* C2: from_toml returns an error, and no Config, for every configuration in
\* which two syntax records have the same name or a syntax record is named
\* "default".
C2_DuplicateOrReservedRejected ==
    (call.op = "from_toml" /\ (HasDuplicateName(DeclaredSyntaxes) \/ UsesReservedName(DeclaredSyntaxes)))
        => ~call.ret.ok /\ config = None

\* A configuration whose two records are both valid and have the same name is
\* rejected as already defined.
C2_Witness ==
    /\ call.op = "from_toml"
    /\ Len(DeclaredSyntaxes) = 2
    /\ DeclaredSyntaxes[1].name = "foo"
    /\ DeclaredSyntaxes[2].name = "foo"
    /\ ~call.ret.ok
    /\ call.ret.err.msg = "syntax \"{}\" is already defined"
    /\ call.ret.err.args[1].v = "foo"

\* The built-in delimiters {% %} {{ }} {# #}, byte by byte.
BuiltInDelimiters ==
    [ block_start   |-> << <<123>>, <<37>> >>,
      block_end     |-> << <<37>>, <<125>> >>,
      expr_start    |-> << <<123>>, <<123>> >>,
      expr_end      |-> << <<125>>, <<125>> >>,
      comment_start |-> << <<123>>, <<35>> >>,
      comment_end   |-> << <<35>>, <<125>> >> ]

\* The delimiters a record stands for once its unspecified fields are filled.
Wanted(raw) == [f \in Fields |-> IF raw[f] = None THEN BuiltInDelimiters[f] ELSE raw[f][1]]

WrongByteLength(raw) == \E f \in Fields : Len(as_bytes(Wanted(raw)[f])) # 2

NoSharedByte(raw) ==
    LET b == as_bytes(Wanted(raw).block_start)
        c == as_bytes(Wanted(raw).comment_start)
        e == as_bytes(Wanted(raw).expr_start)
    IN  ~((b[1] = c[1] /\ b[1] = e[1]) \/ (b[2] = c[2] /\ b[2] = e[2]))

\* The record breaks the length rule or the shared rule, counted in bytes.
Rejected(raw) == WrongByteLength(raw) \/ NoSharedByte(raw)

\* The same two rules counted in characters, as the specification words them.
RejectedByChars(raw) ==
    \/ \E f \in Fields : ~TwoChars(Wanted(raw)[f])
    \/ LET b == Wanted(raw).block_start
           c == Wanted(raw).comment_start
           e == Wanted(raw).expr_start
       IN  ~((b[1] = c[1] /\ b[1] = e[1]) \/ (b[2] = c[2] /\ b[2] = e[2]))

\* Record i takes a name that is reserved or that an earlier record took.
Redefines(l, i) == l[i].name = "default" \/ \E j \in 1..(i - 1) : l[j].name = l[i].name

\* The index of the first record of l that cannot be added, 0 if all can.
FirstFailure(l) ==
    LET failing == {i \in DOMAIN l : Rejected(l[i]) \/ Redefines(l, i)}
    IN  IF failing = {} THEN 0 ELSE CHOOSE i \in failing : \A j \in failing : i <= j

\* general.default_syntax names a syntax that is neither "default" nor declared.
UndeclaredDefault ==
    /\ is_some(DeclaredGeneral)
    /\ is_some(DeclaredGeneral[1].default_syntax)
    /\ DeclaredGeneral[1].default_syntax[1] # "default"
    /\ \A i \in DOMAIN DeclaredSyntaxes :
          DeclaredSyntaxes[i].name # DeclaredGeneral[1].default_syntax[1]

DefaultIsDefined ==
    config # None =>
        /\ config[1].default_syntax \in DOMAIN config[1].syntaxes
        /\ "default" \in DOMAIN config[1].syntaxes

\* C3 (as claimed): whenever general.default_syntax names a syntax neither
\* "default" nor declared, from_toml fails with the "default syntax not found"
\* error; and a returned Config's default_syntax is a key of its syntaxes,
\* which contain "default".
C3_AlwaysNotFoundError ==
    /\ UndeclaredDefault =>
          ~call.ret.ok /\ call.ret.err.msg = "default syntax \"{}\" not found"
    /\ DefaultIsDefined

\* C3 (amended): whenever general.default_syntax names a syntax neither
\* "default" nor declared, from_toml fails; the error is "default syntax not
\* found", naming that syntax, when every syntax record can be added, and the
\* error of the first record that cannot be added otherwise.  A returned
\* Config's default_syntax is a key of its syntaxes, which contain "default".
C3_UndeclaredDefaultRejected ==
    /\ UndeclaredDefault =>
          /\ ~call.ret.ok
          /\ FirstFailure(DeclaredSyntaxes) = 0 =>
                /\ call.ret.err.msg = "default syntax \"{}\" not found"
                /\ call.ret.err.args[1].v = DeclaredGeneral[1].default_syntax[1]
          /\ FirstFailure(DeclaredSyntaxes) # 0 =>
                call.ret.err.msg # "default syntax \"{}\" not found"
    /\ DefaultIsDefined

\* The default names "baz" while only other syntaxes are declared, all valid.
C3_Witness ==
    /\ UndeclaredDefault
    /\ Len(DeclaredSyntaxes) = 2
    /\ FirstFailure(DeclaredSyntaxes) = 0
    /\ ~call.ret.ok
    /\ call.ret.err.msg = "default syntax \"{}\" not found"
    /\ call.ret.err.args[1].v = "baz"

ErrorNames(err, name) == \E i \in DOMAIN err.args : err.args[i].t = "name" /\ err.args[i].v = name

\* C4 (as claimed): when a declared syntax violates the delimiter-length rule
\* or the shared-character rule, the error from_toml returns names an
\* offending syntax.
C4_ErrorNamesSyntax ==
    LET l == DeclaredSyntaxes
        i == FirstFailure(l)
    IN  (call.op = "from_toml" /\ ~call.ret.ok /\ i # 0 /\ RejectedByChars(l[i]) /\ ~Redefines(l, i))
            => ErrorNames(call.ret.err, l[i].name)

\* C4 (amended): when a declared syntax has a delimiter that is not two bytes
\* long, or start delimiters sharing neither their first nor their second
\* byte, and no earlier record fails, from_toml fails with the fixed message
\* "length of delimiters must be two" (length rule), or else with a "bad
\* delimiters" message quoting that record's block_start, comment_start and
\* expr_start; the record's name is not part of the error.
C4_DelimiterErrorUnnamed ==
    LET l == DeclaredSyntaxes
        i == FirstFailure(l)
    IN  (call.op = "from_toml" /\ i # 0 /\ Rejected(l[i])) =>
            /\ ~call.ret.ok
            /\ ~ErrorNames(call.ret.err, l[i].name)
            /\ IF WrongByteLength(l[i])
               THEN /\ call.ret.err.msg = "length of delimiters must be two"
                    /\ call.ret.err.args = << >>
               ELSE /\ call.ret.err.msg = "bad delimiters block_start: {}, comment_start: {}, expr_start: {}, needs one of the two characters in common"
                    /\ [k \in 1..3 |-> call.ret.err.args[k].v]
                          = << Wanted(l[i]).block_start, Wanted(l[i]).comment_start,
                               Wanted(l[i]).expr_start >>

\* The second of two records sets only block_start, to "<%", which shares no
\* byte with the built-in "{#" and "{{".
C4_Witness ==
    /\ call.op = "from_toml"
    /\ Len(DeclaredSyntaxes) = 2
    /\ FirstFailure(DeclaredSyntaxes) = 2
    /\ ~WrongByteLength(DeclaredSyntaxes[2])
    /\ NoSharedByte(DeclaredSyntaxes[2])
    /\ ~call.ret.ok
    /\ Len(call.ret.err.args) = 3
    /\ call.ret.err.args[1].v = << <<60>>, <<37>> >>

\* The built-in escaper rules, in their fixed order.
BuiltInRules ==
    << [extensions |-> {"html", "htm", "xml"}, path |-> "::askama::Html"],
       [extensions |-> {"md", "none", "txt", "yml", ""}, path |-> "::askama::Text"],
       [extensions |-> {"j2", "jinja", "jinja2"}, path |-> "::askama::Html"] >>

\* The escaper rules of the configuration source of a from_toml call.
DeclaredEscapers ==
    IF call.op = "from_toml" /\ call.arg.kind = "doc" THEN unwrap_or(call.arg.doc.escaper, << >>)
    ELSE << >>

\* The least element of a non-empty set of indices.
Least(S) == CHOOSE i \in S : \A j \in S : i <= j

\* C5: a Config's escaper list is the user-declared rules in declaration order
\* followed by the built-in rules, and find_escaper(ext) returns the escaper
\* of the first entry of that list whose extensions contain ext, none if no
\* entry does; with no user rules html gives the HTML escaper, md the
\* plain-text escaper and csv none.
C5_FirstMatchingEscaper ==
    /\ (call.op = "from_toml" /\ call.ret.ok) =>
          LET user == DeclaredEscapers
              es   == call.ret.val.escapers
          IN  /\ Len(es) = Len(user) + 3
              /\ \A i \in DOMAIN user :
                    /\ es[i].path = user[i].path
                    /\ es[i].extensions = {user[i].extensions[k] : k \in DOMAIN user[i].extensions}
              /\ \A i \in 1..3 : es[Len(user) + i] = BuiltInRules[i]
    /\ call.op = "find_escaper" =>
          LET es   == config[1].escapers
              hits == {i \in DOMAIN es : call.arg \in es[i].extensions}
          IN  /\ hits = {} => call.ret = None
              /\ hits # {} => call.ret = Some(es[Least(hits)].path)
              /\ Len(es) = 3 =>
                    /\ call.arg = "html" => call.ret = Some("::askama::Html")
                    /\ call.arg = "md" => call.ret = Some("::askama::Text")
                    /\ call.arg = "csv" => call.ret = None

\* A user rule maps html to the plain-text escaper and wins over the built-in
\* rule for html.
C5_Witness ==
    /\ call.op = "find_escaper"
    /\ call.arg = "html"
    /\ Len(config[1].escapers) > 3
    /\ call.ret = Some("::askama::Text")

\* The directory of a file, and a path resolved against a directory.
DirectoryOf(file) == SubSeq(file, 1, Len(file) - 1)

Resolved(dir, path) == IF path[1] = "/" THEN path ELSE dir \o path

\* The file beside the context file of a find_template call.
Sibling == Resolved(DirectoryOf(call.arg.start_at[1]), call.arg.path)

\* The search directories, by index, under which the requested path exists.
DirHits ==
    {i \in DOMAIN config[1].dirs : Resolved(config[1].dirs[i], call.arg.path) \in fs.templates}

\* C6: find_template(path, Some(context)) returns path resolved against the
\* context file's directory whenever that file exists, whatever exists under
\* the search directories and whatever their order.
C6_SiblingFirst ==
    (call.op = "find_template" /\ call.arg.start_at # None /\ Sibling \in fs.templates)
        => call.ret = Ok(Sibling)

\* The sibling is returned although the first search directory holds a
\* different file for the same path.
C6_Witness ==
    /\ call.op = "find_template"
    /\ call.arg.start_at # None
    /\ Sibling \in fs.templates
    /\ 1 \in DirHits
    /\ Resolved(config[1].dirs[1], call.arg.path) # Sibling
    /\ call.ret = Ok(Sibling)

\* C7: with no context, or when the file beside the context file does not
\* exist, find_template returns the path joined onto the first search
\* directory, in declared order, under which it exists; if there is none it
\* fails with an error that holds the requested path and every search
\* directory.
C7_DirsInOrderOrError ==
    (call.op = "find_template" /\ (call.arg.start_at = None \/ Sibling \notin fs.templates)) =>
        IF DirHits # {}
        THEN call.ret = Ok(Resolved(config[1].dirs[Least(DirHits)], call.arg.path))
        ELSE /\ ~call.ret.ok
             /\ \E k \in DOMAIN call.ret.err.args :
                   call.ret.err.args[k].t = "str" /\ call.ret.err.args[k].v = call.arg.path
             /\ \A i \in DOMAIN config[1].dirs :
                   \E k \in DOMAIN call.ret.err.args :
                      /\ call.ret.err.args[k].t = "dirs"
                      /\ \E j \in DOMAIN call.ret.err.args[k].v :
                            call.ret.err.args[k].v[j] = config[1].dirs[i]

\* The file beside the context file is missing and neither of two search
\* directories holds the path: the lookup fails.
C7_Witness ==
    /\ call.op = "find_template"
    /\ call.arg.start_at # None
    /\ Sibling \notin fs.templates
    /\ Len(config[1].dirs) = 2
    /\ config[1].dirs[1] # config[1].dirs[2]
    /\ DirHits = {}
    /\ ~call.ret.ok

\* C8: a Config's search directories are the single directory templates
\* under the project root when general.dirs is unset (also when there is no
\* general section or the input is empty), and otherwise the listed
\* directories, each joined onto the project root, in the order listed.
C8_SearchDirectories ==
    (call.op = "from_toml" /\ call.ret.ok) =>
        LET g    == DeclaredGeneral
            dirs == call.ret.val.dirs
        IN  IF g = None \/ g[1].dirs = None
            THEN dirs = << <<"/", "proj", "templates">> >>
            ELSE /\ Len(dirs) = Len(g[1].dirs[1])
                 /\ \A i \in DOMAIN dirs : dirs[i] = Resolved(<<"/", "proj">>, g[1].dirs[1][i])

\* Two different directories are listed and resolved in the order listed.
C8_Witness ==
    /\ call.op = "from_toml"
    /\ call.ret.ok
    /\ DeclaredGeneral # None
    /\ DeclaredGeneral[1].dirs = Some(<< <<"tpl">>, <<"templates">> >>)
    /\ config[1].dirs = << <<"/", "proj", "tpl">>, <<"/", "proj", "templates">> >>

\* The Config built from empty input.
AllDefaults ==
    [ dirs           |-> << <<"/", "proj", "templates">> >>,
      syntaxes       |-> ("default" :> BuiltInDelimiters),
      default_syntax |-> "default",
      escapers       |-> BuiltInRules,
      whitespace     |-> "Preserve" ]

\* The configuration file a from_file call reads does not exist.
ConfigFileAbsent ==
    /\ call.op = "from_file"
    /\ fs.conf[<<"/", "proj">> \o (IF call.arg = None THEN <<"askama.toml">> ELSE call.arg[1])].kind
          = "absent"

\* C9 (as claimed): from_file yields the all-defaults configuration whenever
\* the file it would read does not exist, whether the name was defaulted or
\* given.
C9_AbsentNeverAnError == ConfigFileAbsent => call.ret = Ok(AllDefaults)

\* C9 (amended): when the file it would read does not exist, from_file yields
\* the all-defaults configuration if the file name was defaulted, and fails
\* with a "does not exist" error if the file name was given explicitly.
C9_AbsentDefaultedOnly ==
    ConfigFileAbsent =>
        IF call.arg = None
        THEN call.ret = Ok(AllDefaults) /\ config = Some(AllDefaults)
        ELSE ~call.ret.ok /\ call.ret.err.msg = "{} does not exist" /\ config = None

\* An explicitly named configuration file that does not exist.
C9_Witness ==
    /\ ConfigFileAbsent
    /\ call.arg = Some(<<"custom.toml">>)
    /\ ~call.ret.ok

\* C10: in the Syntax built from a record, every field given has the given
\* value and every field not given has the built-in default, for each
\* declared syntax of a configuration on its own.
C10_GivenOrDefault ==
    /\ (call.op = "from_toml" /\ call.ret.ok) =>
          \A i \in DOMAIN DeclaredSyntaxes :
             \A f \in Fields :
                call.ret.val.syntaxes[DeclaredSyntaxes[i].name][f] = Wanted(DeclaredSyntaxes[i])[f]
    /\ (call.op = "try_from" /\ call.ret.ok) =>
          \A f \in Fields : call.ret.val[f] = Wanted(call.arg)[f]

\* Two syntaxes, one giving only block_start and one only expr_start.
C10_Witness ==
    /\ call.op = "from_toml"
    /\ call.ret.ok
    /\ Len(DeclaredSyntaxes) = 2
    /\ {f \in Fields : DeclaredSyntaxes[1][f] # None} = {"block_start"}
    /\ {f \in Fields : DeclaredSyntaxes[2][f] # None} = {"expr_start"}
    /\ config[1].syntaxes[DeclaredSyntaxes[1].name].block_start = << <<123>>, <<60>> >>
    /\ config[1].syntaxes[DeclaredSyntaxes[2].name].block_start = << <<123>>, <<37>> >>

-----------------------------------------------------------------------------
(* Template text (askama_parser/src/config.rs, get_template_source) and the *)
(* template parser's scanner (askama_derive/src/parser/mod.rs).  A &str     *)
(* slice is addressed by BYTE offsets; chars().enumerate() counts CHARS.    *)

Newline == Ch(10)

CarriageReturn == Ch(13)

Space == Ch(32)

Tab == Ch(9)

LetterA == Ch(97)

UpperB == Ch(66)

Digit1 == Ch(49)

LParen == Ch(40)

RParen == Ch(41)

Quote == Ch(34)

Backslash == Ch(92)

Colon == Ch(58)

Dot == Ch(46)

\* U+00C9, an uppercase two-byte char.
UpperEAcute == <<195, 137>>

\* str::is_char_boundary: byte offset n falls between two chars (or at an end).
is_char_boundary(s, n) == \E k \in 0..Len(s) : StrLen(SubSeq(s, 1, k)) = n

\* The number of chars in front of byte offset n, n a char boundary.
CharsBefore(s, n) == CHOOSE k \in 0..Len(s) : StrLen(SubSeq(s, 1, k)) = n

\* &s[..n]
slice_to(s, n) == SubSeq(s, 1, CharsBefore(s, n))

\* &s[n..]
slice_from(s, n) == SubSeq(s, CharsBefore(s, n) + 1, Len(s))

\* str::ends_with(char)
ends_with(s, c) == s # << >> /\ s[Len(s)] = c

\* String::pop: the string without its last char.
string_pop(s) == IF s = << >> THEN s ELSE SubSeq(s, 1, Len(s) - 1)

RECURSIVE strip_all_newlines(_)
\* Fault seeded for C11: every trailing newline is removed, not only one.
strip_all_newlines(source) ==
    IF ends_with(source, Newline) THEN strip_all_newlines(string_pop(source)) ELSE source

\* The body of the Ok arm of get_template_source.
strip_newline(source) ==
    IF ends_with(source, Newline) THEN string_pop(source) ELSE source

\* fs::read_to_string: the text of a readable file.
read_to_string(files, tpl_path) ==
    IF tpl_path \in DOMAIN files.text
    THEN Ok(files.text[tpl_path])
    ELSE Err("io", << >>)

get_template_source(files, tpl_path) ==
    IF ~read_to_string(files, tpl_path).ok
    THEN Err("unable to open template file '{}'", <<Arg("path", tpl_path)>>)
    ELSE Ok(strip_newline(read_to_string(files, tpl_path).val))

is_ws(c) == c \in {Space, Tab, CarriageReturn, Newline}

RECURSIVE trim_start_matches(_)
\* str::trim_start_matches(is_ws): the slice behind the leading whitespace.
trim_start_matches(s) ==
    IF s # << >> /\ is_ws(Head(s)) THEN trim_start_matches(Tail(s)) ELSE s

RECURSIVE trim_end_spaces(_)
\* Fault seeded for C12: only spaces count as trailing whitespace.
trim_end_spaces(s) ==
    IF s # << >> /\ s[Len(s)] = Space THEN trim_end_spaces(string_pop(s)) ELSE s

RECURSIVE trim_end_matches(_)
\* str::trim_end_matches(is_ws): the slice in front of the trailing whitespace.
trim_end_matches(s) ==
    IF s # << >> /\ is_ws(s[Len(s)]) THEN trim_end_matches(string_pop(s)) ELSE s

Lit(lws, val, rws) == [lws |-> lws, val |-> val, rws |-> rws]

split_ws_parts(s) ==
    LET trimmed_start == trim_start_matches(s)
        len_start == StrLen(s) - StrLen(trimmed_start)
        val == trim_end_matches(trimmed_start)
    IN  Lit(slice_to(s, len_start), val, slice_from(trimmed_start, StrLen(val)))

-----------------------------------------------------------------------------
(* parse: the whole-template entry point and its diagnostics *)

\* Ws::default(): both whitespace controls unset.
WsDefault == [flush |-> None, prepare |-> None]

Block(nodes, ws) == [nodes |-> nodes, ws |-> ws]

ParseError(row, column, snippet) == [row |-> row, column |-> column, snippet |-> snippet]

\* The literals of the snippet computation: take(41) and Some((40, _)).
SnippetTake == 41

SnippetLast == 40

\* What a nom parser returns: Ok((rest, value)), Err(Error | Failure) carrying
\* the input at which it gave up, or Err(Incomplete).
NomOk(rest, value) == [kind |-> "Ok", rest |-> rest, value |-> value]

NomError(input, code) == [kind |-> "Error", input |-> input, code |-> code]

NomFailure(input, code) == [kind |-> "Failure", input |-> input, code |-> code]

NomIncomplete == [kind |-> "Incomplete"]

\* nom::combinator::complete: Incomplete becomes an Error at the input.
complete(i, r) == IF r.kind = "Incomplete" THEN NomError(i, "Complete") ELSE r

\* Fault seeded for C16: leftover input is let through.
all_consuming_lenient(r) == r

\* nom::combinator::all_consuming: Ok with leftover input becomes an Error
\* at the leftover.
all_consuming(r) ==
    IF r.kind = "Ok" /\ r.rest # << >> THEN NomError(r.rest, "Eof") ELSE r

\* str::char_indices: each char with the byte offset it starts at.
char_indices(s) == [k \in 1..Len(s) |-> <<StrLen(SubSeq(s, 1, k - 1)), s[k]>>]

\* Iterator::enumerate, counting from 0.
enumerate(it) == [k \in 1..Len(it) |-> <<k - 1, it[k]>>]

\* Fault seeded for C15: one element fewer is taken.
take_one_less(it, n) == SubSeq(it, 1, IF Len(it) < n - 1 THEN Len(it) ELSE n - 1)

\* Iterator::take
take(it, n) == SubSeq(it, 1, IF Len(it) < n THEN Len(it) ELSE n)

\* Iterator::last
last(it) == IF it = << >> THEN None ELSE Some(it[Len(it)])

\* char::escape_debug for the chars of the model: the control chars, the
\* quote and the backslash are written as a backslash and a letter.
escape_debug(c) ==
    IF c = Newline THEN <<Backslash, Ch(110)>>
    ELSE IF c = CarriageReturn THEN <<Backslash, Ch(114)>>
    ELSE IF c = Tab THEN <<Backslash, Ch(116)>>
    ELSE IF c = Quote THEN <<Backslash, Quote>>
    ELSE IF c = Backslash THEN <<Backslash, Backslash>>
    ELSE <<c>>

RECURSIVE escape_all(_)
escape_all(s) == IF s = << >> THEN << >> ELSE escape_debug(Head(s)) \o escape_all(Tail(s))

\* format!("{:?}", s): the text between double quotes, escaped.
debug_fmt(s) == <<Quote>> \o escape_all(s) \o <<Quote>>

Ellipsis == <<Dot, Dot, Dot>>

snippet_of(source_after) ==
    LET l == last(take(enumerate(char_indices(source_after)), SnippetTake))
    IN  IF l # None /\ l[1][1] = SnippetLast
        THEN debug_fmt(slice_to(source_after, l[1][2][1])) \o Ellipsis
        ELSE debug_fmt(source_after)

\* The index of the first Newline of s, 0 when there is none.
find_newline(s) ==
    IF \E k \in 1..Len(s) : s[k] = Newline
    THEN CHOOSE k \in 1..Len(s) : s[k] = Newline /\ \A j \in 1..(k - 1) : s[j] # Newline
    ELSE 0

strip_cr(line) == IF ends_with(line, CarriageReturn) THEN string_pop(line) ELSE line

RECURSIVE lines(_)
\* str::lines: the lines without their "\n" or "\r\n" terminators; text
\* behind the last terminator is a line of its own unless it is empty.
lines(s) ==
    IF s = << >> THEN << >>
    ELSE IF find_newline(s) = 0 THEN <<s>>
    ELSE <<strip_cr(SubSeq(s, 1, find_newline(s) - 1))>>
             \o lines(SubSeq(s, find_newline(s) + 1, Len(s)))

row_column(source_before) ==
    LET l == last(enumerate(lines(source_before)))
    IN  IF l # None
        THEN [row |-> l[1][1] + 1, column |-> CharCount(l[1][2])]
        ELSE [row |-> 1, column |-> 0]

\* The Err arm of parse for an error raised at the slice input of src.
parse_error(src, input) ==
    LET offset == StrLen(src) - StrLen(input)
        source_before == slice_to(src, offset)
        source_after == slice_from(src, offset)
    IN  ParseError(row_column(source_before).row, row_column(source_before).column,
                   snippet_of(source_after))

\* parse, for the result node_parse of Node::parse on src.
parse(src, node_parse) ==
    LET r == all_consuming(complete(src, node_parse))
    IN  IF r.kind = "Ok"
        THEN [ok |-> TRUE, val |-> Block(r.value, WsDefault)]
        ELSE [ok |-> FALSE, err |-> parse_error(src, r.input)]

-----------------------------------------------------------------------------
(* Scanner primitives: take_content, nested_parenthesis, identifier, path *)

\* A slice starts with the text t, compared byte by byte.
starts_with(i, t) ==
    /\ StrLen(t) <= StrLen(i)
    /\ SubSeq(as_bytes(i), 1, StrLen(t)) = as_bytes(t)

\* nom tag(t)
tag(t, i) ==
    IF starts_with(i, t) THEN NomOk(slice_from(i, StrLen(t)), t) ELSE NomError(i, "Tag")

\* Fault seeded for C18: only the block delimiter ends a literal.
p_start_block_only(s, i) == tag(s.block_start, i)

\* alt((tag(block_start), tag(comment_start), tag(expr_start)))
p_start(s, i) ==
    IF tag(s.block_start, i).kind = "Ok" THEN tag(s.block_start, i)
    ELSE IF tag(s.comment_start, i).kind = "Ok" THEN tag(s.comment_start, i)
    ELSE tag(s.expr_start, i)

RECURSIVE skip_till(_, _)
\* skip_till(p_start): the input from the first place where p_start matches,
\* with what p_start returns there; anychar fails at the end of the input.
skip_till(s, i) ==
    IF p_start(s, i).kind = "Ok" THEN NomOk(i, <<p_start(s, i).rest, p_start(s, i).value>>)
    ELSE IF i = << >> THEN NomError(i, "Eof")
    ELSE skip_till(s, Tail(i))

\* nom recognize(p): the part of i that p consumed.
recognize(i, r) ==
    IF r.kind = "Ok" THEN NomOk(r.rest, slice_to(i, StrLen(i) - StrLen(r.rest))) ELSE r

\* nom opt(p): an Error is no match.
opt(i, r) ==
    IF r.kind = "Ok" THEN NomOk(r.rest, Some(r.value))
    ELSE IF r.kind = "Error" THEN NomOk(i, None)
    ELSE r

take_content(i, s) ==
    IF i = << >> THEN NomError(i, "Not")
    ELSE LET r == opt(i, recognize(i, skip_till(s, i)))
         IN  IF r.value = Some(<< >>) THEN NomError(r.rest, "TakeUntil")
             ELSE IF r.value # None THEN NomOk(r.rest, split_ws_parts(r.value[1]))
             ELSE NomOk(<< >>, split_ws_parts(r.rest))

NomPanic == [kind |-> "Panic"]

\* One turn of the loop of nested_parenthesis on the char b at index k.
paren_step(st, k, b) ==
    LET matched == ~(b = LParen \/ b = RParen) \/ ~st.in_str
        brk == matched /\ b = RParen /\ st.nested = 0
        nested == IF matched /\ b = LParen THEN st.nested + 1
                  ELSE IF matched /\ b = RParen /\ st.nested > 0 THEN st.nested - 1
                  ELSE st.nested
        in_str == IF matched /\ b = Quote
                  THEN (IF st.in_str THEN st.escaped ELSE TRUE)
                  ELSE st.in_str
        esc == IF matched /\ b = Backslash THEN ~st.escaped ELSE st.escaped
    IN  IF brk THEN [st EXCEPT !.last = k, !.done = TRUE]
        ELSE [nested |-> nested, last |-> st.last, in_str |-> in_str,
              escaped |-> (IF esc /\ b # Backslash THEN FALSE ELSE esc), done |-> FALSE]

RECURSIVE paren_loop(_, _, _)
\* for (i, b) in i.chars().enumerate(): k is the index of the next char.
paren_loop(i, k, st) ==
    IF st.done \/ k >= Len(i) THEN st
    ELSE paren_loop(i, k + 1, paren_step(st, k, i[k + 1]))

nested_parenthesis(i) ==
    LET st == paren_loop(i, 0, [nested |-> 0, last |-> 0, in_str |-> FALSE,
                                escaped |-> FALSE, done |-> FALSE])
    IN  IF st.nested # 0 THEN NomError(i, "SeparatedNonEmptyList")
        ELSE IF ~is_char_boundary(i, st.last) THEN NomPanic
        ELSE NomOk(slice_from(i, st.last), << >>)


\* AsChar::is_alpha for char: an ASCII letter.
is_alpha(c) == Len(c) = 1 /\ (c[1] \in 65..90 \/ c[1] \in 97..122)

\* AsChar::is_alphanum for char: an ASCII letter or decimal digit.
is_alphanum(c) == is_alpha(c) \/ (Len(c) = 1 /\ c[1] \in 48..57)

Underscore == Ch(95)

\* c >= '\u{0080}': every char of two or more bytes.
is_non_ascii(c) == Len(c) > 1

\* char::is_uppercase, on the chars of the model.
is_uppercase(c) == (Len(c) = 1 /\ c[1] \in 65..90) \/ c = UpperEAcute

is_identifier_start(c) == is_alpha(c) \/ c = Underscore \/ is_non_ascii(c)

is_identifier_tail(c) == is_alphanum(c) \/ c = Underscore \/ is_non_ascii(c)

RECURSIVE start_run(_)
\* The number of leading chars an identifier can start with.
start_run(s) == IF s # << >> /\ is_identifier_start(Head(s)) THEN 1 + start_run(Tail(s)) ELSE 0

RECURSIVE tail_run(_)
\* The number of leading chars an identifier can continue with.
tail_run(s) == IF s # << >> /\ is_identifier_tail(Head(s)) THEN 1 + tail_run(Tail(s)) ELSE 0

\* split_at_position1_complete: one or more chars of the start class.
identifier_start(s) ==
    IF start_run(s) = 0 THEN NomError(s, "Alpha")
    ELSE NomOk(SubSeq(s, start_run(s) + 1, Len(s)), SubSeq(s, 1, start_run(s)))

\* split_at_position1_complete: one or more chars of the tail class.
identifier_tail(s) ==
    IF tail_run(s) = 0 THEN NomError(s, "Alpha")
    ELSE NomOk(SubSeq(s, tail_run(s) + 1, Len(s)), SubSeq(s, 1, tail_run(s)))

\* recognize(pair(identifier_start, opt(identifier_tail)))
identifier(input) ==
    LET a == identifier_start(input)
    IN  IF a.kind # "Ok" THEN a
        ELSE recognize(input, opt(a.rest, identifier_tail(a.rest)))

\* take_till(not_ws): the input behind its leading whitespace.
take_till_not_ws(i) == trim_start_matches(i)

ColonColon == <<Colon, Colon>>

\* ws(tag("::"))
ws_colons(i) ==
    LET t == tag(ColonColon, take_till_not_ws(i))
    IN  IF t.kind = "Ok" THEN NomOk(take_till_not_ws(t.rest), t.value) ELSE t

\* opt(value("", ws(tag("::"))))
root(i) ==
    IF ws_colons(i).kind = "Ok" THEN NomOk(ws_colons(i).rest, Some(<< >>)) ELSE NomOk(i, None)

RECURSIVE separated_more(_, _)
\* The loop of separated_list1: separator and element, until either fails.
separated_more(i, res) ==
    LET sep == ws_colons(i)
        el == identifier(sep.rest)
    IN  IF sep.kind # "Ok" THEN NomOk(i, res)
        ELSE IF el.kind # "Ok" THEN NomOk(i, res)
        ELSE separated_more(el.rest, Append(res, el.value))

\* separated_list1(ws(tag("::")), identifier)
tail(i) ==
    LET first == identifier(i)
    IN  IF first.kind # "Ok" THEN first ELSE separated_more(first.rest, <<first.value>>)

\* tuple((root, identifier, ws(tag("::")), tail))
path_tuple(i) ==
    LET r == root(i)
        start == identifier(r.rest)
        sep == ws_colons(start.rest)
        rest == tail(sep.rest)
    IN  IF start.kind # "Ok" THEN start
        ELSE IF sep.kind # "Ok" THEN sep
        ELSE IF rest.kind # "Ok" THEN rest
        ELSE NomOk(rest.rest, r.value \o <<start.value>> \o rest.value)

\* str::contains(char::is_uppercase)
contains_uppercase(name) == \E k \in 1..Len(name) : is_uppercase(name[k])

path(i) ==
    LET t == path_tuple(i)
        name == identifier(i)
    IN  IF t.kind = "Ok" THEN t
        ELSE IF name.kind = "Ok" /\ contains_uppercase(name.value)
             THEN NomOk(name.rest, <<name.value>>)
        ELSE t

-----------------------------------------------------------------------------
(* State: the loop-nesting counter of one parse call *)

\* State::new: loop_depth is Cell::new(0).
StateNew == 0

enter_loop(depth) == depth + 1

\* Fault seeded for C17: leaving a loop leaves the counter alone.
leave_loop_noop(depth) == depth

leave_loop(depth) == depth - 1

is_in_loop(depth) == depth > 0

-----------------------------------------------------------------------------
(* Bounds and inputs of the text operations *)

MaxTextLen == 4

MaxSnippetInput == 42

MaxPieces == 4

MaxTokens == 4

\* File texts: letters, a two-byte char and both line terminators.
SourceTexts == SeqsUpTo({LetterA, EAcute, Newline, CarriageReturn}, MaxTextLen)

TemplateFile == join(TemplatesDir, <<"b.html">>)

MissingFile == join(TemplatesDir, <<"missing.html">>)

\* A file system holding one template file with the given text.
SourceFileSystem(text) ==
    [templates |-> {TemplateFile}, conf |-> NoFiles.conf, text |-> (TemplateFile :> text)]

SourceFileSystems == {SourceFileSystem(text) : text \in SourceTexts}

\* Literal text with each kind of whitespace.
WsTexts == SeqsUpTo({Space, Newline, Tab, LetterA, EAcute}, MaxTextLen)

\* A text of n chars repeating the chars of p.
LongText(p, n) == [k \in 1..n |-> p[((k - 1) % Len(p)) + 1]]

\* Sources around the snippet limit, in one-byte chars, two-byte chars and
\* a mix with newlines.
LongSources ==
    {LongText(p, n) : p \in {<<LetterA>>, <<EAcute>>, <<LetterA, EAcute, Newline>>},
                      n \in (SnippetLast - 1)..MaxSnippetInput}

ParseSources == SourceTexts \cup LongSources

Suffixes(src) == {SubSeq(src, k + 1, Len(src)) : k \in 0..Len(src)}

\* The node vector is opaque to parse; it is labelled by the text it covers.
NodesOf(src, rest) ==
    IF Len(rest) = Len(src) THEN << >>
    ELSE <<split_ws_parts(SubSeq(src, 1, Len(src) - Len(rest)))>>

\* Everything Node::parse can return on src: it stops at some char of src,
\* with the nodes read so far or with an error there.
NodeResults(src) ==
    {NomOk(rest, NodesOf(src, rest)) : rest \in Suffixes(src)}
        \cup {NomError(rest, "Tag") : rest \in Suffixes(src)}
        \cup {NomFailure(rest, "Tag") : rest \in Suffixes(src)}
        \cup {NomIncomplete}

ContentTexts == SeqsUpTo({LetterA, Space, LBrace, Percent, Hash, Bang}, MaxTextLen)

\* The built-in syntax and one with its own expression delimiter.
ContentSyntaxes == {SyntaxDefault, try_from(Named("bang", OnlyExprStart)).val}

ParenTexts == SeqsUpTo({LParen, RParen, Quote, Backslash, EAcute}, MaxTextLen)

RECURSIVE Concat(_)
Concat(pieces) == IF pieces = << >> THEN << >> ELSE Head(pieces) \o Concat(Tail(pieces))

\* Path tokens are put together from separators, identifiers in lower and
\* upper case, a digit and whitespace.
PathPieces == {ColonColon, <<LetterA>>, <<UpperB>>, <<Digit1>>, <<Space>>}

PathTexts == {Concat(p) : p \in SeqsUpTo(PathPieces, MaxPieces)}

\* The statements of a template as the loop parser sees them.
Tokens == {"for", "endfor", "break", "lit"}

TokenSeqs == SeqsUpTo(Tokens, MaxTokens)

-----------------------------------------------------------------------------
(* The text operations as actions: each is applied once to one input. *)

GetTemplateSourceCall(tpl_path) ==
    /\ call = NoCall
    /\ call' = [op |-> "get_template_source", arg |-> tpl_path,
                ret |-> get_template_source(fs, tpl_path)]
    /\ UNCHANGED <<fs, config>>
    /\ UNCHANGED parser_vars

SplitWsPartsCall(s) ==
    /\ call = NoCall
    /\ call' = [op |-> "split_ws_parts", arg |-> s, ret |-> split_ws_parts(s)]
    /\ UNCHANGED <<fs, config>>
    /\ UNCHANGED parser_vars

\* Node::parse, whose result parse works on, stops somewhere in src.
ParseCall(src) ==
    /\ call = NoCall
    /\ \E node_parse \in NodeResults(src) :
          call' = [op |-> "parse", arg |-> [src |-> src, node_parse |-> node_parse],
                   ret |-> parse(src, node_parse)]
    /\ UNCHANGED <<fs, config>>
    /\ UNCHANGED parser_vars

TakeContentCall(i, s) ==
    /\ call = NoCall
    /\ call' = [op |-> "take_content", arg |-> [i |-> i, s |-> s], ret |-> take_content(i, s)]
    /\ UNCHANGED <<fs, config>>
    /\ UNCHANGED parser_vars

NestedParenthesisCall(i) ==
    /\ call = NoCall
    /\ call' = [op |-> "nested_parenthesis", arg |-> i, ret |-> nested_parenthesis(i)]
    /\ UNCHANGED <<fs, config>>
    /\ UNCHANGED parser_vars

PathCall(i) ==
    /\ call = NoCall
    /\ call' = [op |-> "path", arg |-> i, ret |-> path(i)]
    /\ UNCHANGED <<fs, config>>
    /\ UNCHANGED parser_vars

\* Reading template sources.
InitSource ==
    /\ fs \in SourceFileSystems
    /\ config = None
    /\ call = NoCall
    /\ ParserIdle

NextSource == \E tpl_path \in {TemplateFile, MissingFile} : GetTemplateSourceCall(tpl_path)

SpecSource == InitSource /\ [][NextSource]_vars

\* Each operation is applied once: the inputs while no call has been made.
Once(inputs) == IF call = NoCall THEN inputs ELSE {}

\* The parser's entry point and scanner primitives.
NextParser ==
    \/ \E s \in Once(WsTexts) : SplitWsPartsCall(s)
    \/ \E src \in Once(ParseSources) : ParseCall(src)
    \/ \E i \in Once(ContentTexts), s \in ContentSyntaxes : TakeContentCall(i, s)
    \/ \E i \in Once(ParenTexts) : NestedParenthesisCall(i)
    \/ \E i \in Once(PathTexts) : PathCall(i)

SpecParser == Init /\ [][NextParser]_vars

-----------------------------------------------------------------------------
(* Parsing loop bodies.  A loop statement parses its body between          *)
(* enter_loop and leave_loop; a body ends at its closing statement, or     *)
(* fails where a statement in it fails or the input ends.  A failure is    *)
(* handed up through every enclosing body.                                 *)

Frame(depth) == [saved |-> depth]

Entered(depth) == [ev |-> "enter", before |-> depth, after |-> enter_loop(depth)]

Left(frame, depth, failed) ==
    [ev |-> "leave", saved |-> frame.saved, after |-> leave_loop(depth), failed |-> failed]

\* Literal text is read in any context.
ParseLit ==
    /\ status = "parsing"
    /\ remaining # << >> /\ Head(remaining) = "lit"
    /\ remaining' = Tail(remaining)
    /\ UNCHANGED <<fs, config, call, loop_depth, frames, status, log>>

\* A loop-only statement is read inside a loop and fails outside of one.
ParseBreak ==
    /\ status = "parsing"
    /\ remaining # << >> /\ Head(remaining) = "break"
    /\ IF is_in_loop(loop_depth)
       THEN remaining' = Tail(remaining) /\ status' = status
       ELSE remaining' = remaining /\ status' = "failing"
    /\ UNCHANGED <<fs, config, call, loop_depth, frames, log>>

\* The opening statement of a loop: its body is parsed inside enter_loop.
EnterLoopBody ==
    /\ status = "parsing"
    /\ remaining # << >> /\ Head(remaining) = "for"
    /\ loop_depth' = enter_loop(loop_depth)
    /\ frames' = Append(frames, Frame(loop_depth))
    /\ log' = Append(log, Entered(loop_depth))
    /\ remaining' = Tail(remaining)
    /\ UNCHANGED <<fs, config, call, status>>

\* The closing statement ends the innermost body: leave_loop, then the
\* body's nodes are returned.
LeaveLoopBody ==
    /\ status = "parsing"
    /\ remaining # << >> /\ Head(remaining) = "endfor"
    /\ frames # << >>
    /\ loop_depth' = leave_loop(loop_depth)
    /\ log' = Append(log, Left(frames[Len(frames)], loop_depth, FALSE))
    /\ frames' = SubSeq(frames, 1, Len(frames) - 1)
    /\ remaining' = Tail(remaining)
    /\ UNCHANGED <<fs, config, call, status>>

\* A closing statement outside every loop, or the end of the input inside a
\* body, is a parse failure.
FailHere ==
    /\ status = "parsing"
    /\ \/ remaining # << >> /\ Head(remaining) = "endfor" /\ frames = << >>
       \/ remaining = << >> /\ frames # << >>
    /\ status' = "failing"
    /\ UNCHANGED <<fs, config, call, loop_depth, remaining, frames, log>>

\* A failure leaves the innermost body: leave_loop, then the error is
\* returned to the enclosing parser.
FailLoopBody ==
    /\ status = "failing"
    /\ frames # << >>
    /\ loop_depth' = leave_loop(loop_depth)
    /\ log' = Append(log, Left(frames[Len(frames)], loop_depth, TRUE))
    /\ frames' = SubSeq(frames, 1, Len(frames) - 1)
    /\ UNCHANGED <<fs, config, call, remaining, status>>

\* The parse call returns: the tree, or the error.
Return ==
    /\ frames = << >>
    /\ \/ status = "parsing" /\ remaining = << >> /\ status' = "ok"
       \/ status = "failing" /\ status' = "failed"
    /\ UNCHANGED <<fs, config, call, loop_depth, remaining, frames, log>>

InitLoop ==
    /\ fs = NoFiles
    /\ config = None
    /\ call = NoCall
    /\ loop_depth = StateNew
    /\ remaining \in TokenSeqs
    /\ frames = << >>
    /\ status = "parsing"
    /\ log = << >>

NextLoop ==
    \/ ParseLit
    \/ ParseBreak
    \/ EnterLoopBody
    \/ LeaveLoopBody
    \/ FailHere
    \/ FailLoopBody
    \/ Return

SpecLoop == InitLoop /\ [][NextLoop]_vars

-----------------------------------------------------------------------------
(* Properties of template sources and of the parser.  Expected values are  *)
(* written out on chars and char positions, without the byte offsets the   *)
(* operators work with.                                                    *)

LF == <<10>>

Blank == {<<32>>, <<9>>, <<13>>, <<10>>}

\* The text of the file a source was read from.
FileText == fs.text[call.arg]

\* C11: get_template_source returns the text of the file without its last
\* char when that char is a line feed and unchanged otherwise: at most one
\* char goes, only from the end, only a line feed.
C11_SingleTrailingNewline ==
    (call.op = "get_template_source" /\ call.arg \in DOMAIN fs.text) =>
        /\ call.ret.ok
        /\ IF FileText # << >> /\ FileText[Len(FileText)] = LF
           THEN call.ret.val = SubSeq(FileText, 1, Len(FileText) - 1)
           ELSE call.ret.val = FileText

\* A text ending in two line feeds was read and keeps one of them.
C11_Witness ==
    /\ call.op = "get_template_source"
    /\ call.arg \in DOMAIN fs.text
    /\ Len(FileText) >= 3
    /\ FileText[Len(FileText)] = LF /\ FileText[Len(FileText) - 1] = LF
    /\ call.ret.ok
    /\ Len(call.ret.val) = Len(FileText) - 1
    /\ call.ret.val[Len(call.ret.val)] = LF

AllBlank(s) == \A k \in 1..Len(s) : s[k] \in Blank

\* C12: split_ws_parts loses nothing: lws, val and rws put together are the
\* input, lws and rws hold whitespace only, and val neither starts nor ends
\* with whitespace; for every input, the empty and the all-whitespace too.
C12_SplitIsLossless ==
    call.op = "split_ws_parts" =>
        /\ call.ret.lws \o call.ret.val \o call.ret.rws = call.arg
        /\ AllBlank(call.ret.lws)
        /\ AllBlank(call.ret.rws)
        /\ call.ret.val # << >> =>
               /\ call.ret.val[1] \notin Blank
               /\ call.ret.val[Len(call.ret.val)] \notin Blank

\* A text with whitespace on both sides of a value holding a two-byte char.
C12_Witness ==
    /\ call.op = "split_ws_parts"
    /\ call.ret.lws # << >>
    /\ call.ret.rws # << >>
    /\ \E k \in 1..Len(call.ret.val) : Len(call.ret.val[k]) = 2

\* The input at which a failed parse gave up.
FailedAt ==
    IF call.arg.node_parse.kind = "Incomplete" THEN call.arg.src
    ELSE IF call.arg.node_parse.kind = "Ok" THEN call.arg.node_parse.rest
    ELSE call.arg.node_parse.input

\* The source in front of the failure.
Consumed == SubSeq(call.arg.src, 1, Len(call.arg.src) - Len(FailedAt))

ParseFailed == call.op = "parse" /\ ~call.ret.ok

LineFeeds(s) == {k \in 1..Len(s) : s[k] = LF}

\* The chars behind the last line feed of s.
PartialLine(s) ==
    IF LineFeeds(s) = {} THEN s
    ELSE SubSeq(s, (CHOOSE k \in LineFeeds(s) : \A j \in LineFeeds(s) : j <= k) + 1, Len(s))

\* C13: a failure behind the prefix src[..k] is reported at row 1 + the
\* number of line feeds in the prefix and at the column that is the number
\* of chars behind the prefix's last line feed; for every k, the empty
\* prefix and a prefix ending in a line feed too.
C13_RowAndColumn ==
    ParseFailed =>
        /\ call.ret.err.row = 1 + Cardinality(LineFeeds(Consumed))
        /\ call.ret.err.column = Len(PartialLine(Consumed))

\* C14 as claimed: row and column of every ParseError are 1-based.
C14_OneBasedRowAndColumn ==
    ParseFailed => call.ret.err.row >= 1 /\ call.ret.err.column >= 1

\* C14: every ParseError has a 1-based row and a column that counts chars,
\* not bytes, from 0: row >= 1, column >= 0, column is 0 for a failure at
\* the start of the input, never more than the chars consumed, and on a
\* first line without terminators it is the number of chars consumed.
C14_RowOneBasedColumnInChars ==
    ParseFailed =>
        /\ call.ret.err.row >= 1
        /\ call.ret.err.column >= 0
        /\ call.ret.err.column <= Len(Consumed)
        /\ Consumed = << >> => call.ret.err.column = 0
        /\ (\A k \in 1..Len(Consumed) : Consumed[k] \notin {<<10>>, <<13>>}) =>
               call.ret.err.column = Len(Consumed)

\* A failure behind two-byte chars: the column is their number.
C14_Witness ==
    /\ ParseFailed
    /\ Len(Consumed) >= 2
    /\ \A k \in 1..Len(Consumed) : Len(Consumed[k]) = 2
    /\ call.ret.err.column = Len(Consumed)
    /\ call.ret.err.row = 1

\* C15: the snippet is the input left at the failure, cut to 40 chars: all
\* of it and no ellipsis when it has at most 40 chars, its first 40 chars
\* and "..." when it has more; whole chars only.
C15_SnippetFortyChars ==
    ParseFailed =>
        IF Len(FailedAt) <= 40
        THEN call.ret.err.snippet = debug_fmt(FailedAt)
        ELSE call.ret.err.snippet = debug_fmt(SubSeq(FailedAt, 1, 40)) \o <<<<46>>, <<46>>, <<46>>>>

\* 41 two-byte chars were left: the snippet holds 40 of them and "...".
C15_Witness ==
    /\ ParseFailed
    /\ Len(FailedAt) = 41
    /\ \A k \in 1..41 : Len(FailedAt[k]) = 2
    /\ Len(call.ret.err.snippet) = 45
    /\ call.ret.err.snippet[41] = FailedAt[40]
    /\ call.ret.err.snippet[43] = <<46>>

\* C16: parse returns a tree only when Node::parse read the whole input;
\* leftover input is a ParseError at the leftover; the Block returned has
\* the default Ws, flush and prepare both None.
C16_WholeInputOrError ==
    call.op = "parse" =>
        /\ call.ret.ok <=> (call.arg.node_parse.kind = "Ok" /\ call.arg.node_parse.rest = << >>)
        /\ call.ret.ok =>
               /\ call.ret.val.nodes = call.arg.node_parse.value
               /\ call.ret.val.ws = [flush |-> << >>, prepare |-> << >>]

\* Node::parse stopped in front of leftover input and parse failed there.
C16_Witness ==
    /\ call.op = "parse"
    /\ call.arg.node_parse.kind = "Ok"
    /\ call.arg.node_parse.rest # << >>
    /\ call.arg.node_parse.value # << >>
    /\ ~call.ret.ok
    /\ call.ret.err.column = Len(Consumed)


Events(kind) == {k \in 1..Len(log) : log[k].ev = kind}

\* C17: the loop-nesting counter is back at its value from before the call
\* after every parse of a loop body, whether the body was read or failed:
\* every enter_loop is matched by exactly one leave_loop on every way out,
\* so the bodies still open account for the counter and none is open when
\* the parse call returns.
C17_LoopDepthRestored ==
    /\ \A k \in Events("leave") : log[k].after = log[k].saved
    /\ loop_depth = Cardinality(Events("enter")) - Cardinality(Events("leave"))
    /\ loop_depth = Len(frames)
    /\ status \in {"ok", "failed"} =>
           /\ loop_depth = 0
           /\ Cardinality(Events("enter")) = Cardinality(Events("leave"))

\* A loop inside a loop was read to its end, then the outer body failed and
\* the parse call returned the error.
C17_Witness ==
    /\ status = "failed"
    /\ \E j \in Events("leave") : ~log[j].failed /\ log[j].saved = 1
    /\ \E k \in Events("leave") : log[k].failed /\ log[k].saved = 0
    /\ loop_depth = 0

\* The three start delimiters of the syntax a literal is read under.
StartDelimiters == {call.arg.s.block_start, call.arg.s.comment_start, call.arg.s.expr_start}

\* The char positions of the input at which a start delimiter stands.
DelimiterAt ==
    {k \in 0..Len(call.arg.i) :
        \E d \in StartDelimiters :
            /\ k + Len(d) <= Len(call.arg.i)
            /\ SubSeq(call.arg.i, k + 1, k + Len(d)) = d}

Earliest == CHOOSE k \in DelimiterAt : \A j \in DelimiterAt : k <= j

LitText(lit) == lit.lws \o lit.val \o lit.rws

\* C18: take_content on input that is not empty yields a literal of the
\* text in front of the earliest start delimiter and leaves the input from
\* that delimiter on, or takes all of the input when it holds no start
\* delimiter; it fails, consuming nothing, on empty input and when a start
\* delimiter stands at position 0.
C18_LiteralUpToDelimiter ==
    call.op = "take_content" =>
        IF call.arg.i = << >> \/ (DelimiterAt # {} /\ Earliest = 0)
        THEN call.ret.kind = "Error" /\ call.ret.input = call.arg.i
        ELSE IF DelimiterAt = {}
        THEN /\ call.ret.kind = "Ok"
             /\ call.ret.rest = << >>
             /\ LitText(call.ret.value) = call.arg.i
        ELSE /\ call.ret.kind = "Ok"
             /\ call.ret.rest = SubSeq(call.arg.i, Earliest + 1, Len(call.arg.i))
             /\ LitText(call.ret.value) = SubSeq(call.arg.i, 1, Earliest)

\* Text with whitespace in front of a comment delimiter was read: the
\* literal ends at the delimiter.
C18_Witness ==
    /\ call.op = "take_content"
    /\ call.ret.kind = "Ok"
    /\ call.ret.rest = call.arg.s.comment_start
    /\ call.ret.value.lws # << >>
    /\ call.ret.value.val # << >>

\* The chars of the input from index k on, read with the depth of open
\* parentheses, inside a string literal or not, behind a backslash or not:
\* the index of the closing parenthesis that has no opening one, or 0 and
\* the depth at the end of the input.
RECURSIVE Matching(_, _, _, _, _)
Matching(i, k, depth, in_string, escaping) ==
    IF k > Len(i) THEN [at |-> 0, depth |-> depth]
    ELSE IF in_string
    THEN Matching(i, k + 1, depth,
                  ~(i[k] = <<34>> /\ ~escaping), i[k] = <<92>> /\ ~escaping)
    ELSE IF i[k] = <<41>> /\ depth = 0 THEN [at |-> k, depth |-> 0]
    ELSE Matching(i, k + 1,
                  IF i[k] = <<40>> THEN depth + 1 ELSE IF i[k] = <<41>> THEN depth - 1 ELSE depth,
                  i[k] = <<34>>, i[k] = <<92>> /\ ~escaping)

\* C19: nested_parenthesis returns the input from the matching top-level
\* ")" on; parentheses in a string literal and an escaped quote in it change
\* neither the depth nor the string's end; it fails exactly when the input
\* ends at a depth above 0; for every input, with multi-byte chars in front
\* of the matching ")" too.
C19_RestAtMatchingParen ==
    call.op = "nested_parenthesis" =>
        LET m == Matching(call.arg, 1, 0, FALSE, FALSE)
        IN  /\ m.at > 0 =>
                   /\ call.ret.kind = "Ok"
                   /\ call.ret.rest = SubSeq(call.arg, m.at, Len(call.arg))
            /\ call.ret.kind = "Error" <=> (m.at = 0 /\ m.depth > 0)

Letter(c) == Len(c) = 1 /\ (c[1] \in 65..90 \/ c[1] \in 97..122)

Upper(c) == Len(c) = 1 /\ c[1] \in 65..90

\* An identifier: a letter or underscore, then letters, digits, underscores.
Identifier(s) ==
    /\ s # << >>
    /\ Letter(s[1]) \/ s[1] = <<95>>
    /\ \A k \in 1..Len(s) : Letter(s[k]) \/ s[k] = <<95>> \/ (Len(s[k]) = 1 /\ s[k][1] \in 48..57)

RECURSIVE Segments(_)
\* The pieces of s between its "::" separators.
Segments(s) ==
    IF \E k \in 1..(Len(s) - 1) : s[k] = <<58>> /\ s[k + 1] = <<58>>
    THEN LET k == CHOOSE k \in 1..(Len(s) - 1) :
                      /\ s[k] = <<58>> /\ s[k + 1] = <<58>>
                      /\ \A j \in 1..(k - 1) : ~(s[j] = <<58>> /\ s[j + 1] = <<58>>)
         IN  <<SubSeq(s, 1, k - 1)>> \o Segments(SubSeq(s, k + 2, Len(s)))
    ELSE <<s>>

\* A token of identifiers joined by "::", a leading "::" allowed.
PathToken(s) ==
    /\ Len(Segments(s)) >= 2
    /\ Segments(s)[1] = << >> \/ Identifier(Segments(s)[1])
    /\ \A k \in 2..Len(Segments(s)) : Identifier(Segments(s)[k])

\* C20: path takes every token that holds "::" as a path and returns its
\* segments in order, the first one empty for a leading "::"; a bare
\* identifier is a path of one segment exactly when it holds an uppercase
\* letter, and path fails on it, consuming nothing, when it holds none.
C20_TokensWithSeparatorArePaths ==
    call.op = "path" =>
        /\ PathToken(call.arg) =>
               /\ call.ret.kind = "Ok"
               /\ call.ret.value = Segments(call.arg)
               /\ call.ret.rest = << >>
        /\ Identifier(call.arg) =>
               IF \E k \in 1..Len(call.arg) : Upper(call.arg[k])
               THEN call.ret.kind = "Ok" /\ call.ret.value = <<call.arg>> /\ call.ret.rest = << >>
               ELSE call.ret.kind = "Error"

=============================================================================
